---- MODULE Spec2Model ----
(***************************************************************************)
(* Model of TinybirdMigrationAgent (src/main.py): the file inventory, the  *)
(* six detectors, the confirmation prompts and the four remediation        *)
(* routines, over a small file tree.                                       *)
(*                                                                         *)
(* Text is modelled at the level of atoms: a file's text is a sequence of  *)
(* atoms, each atom a run of characters that the program's patterns treat  *)
(* as one unit ("TYPE", "sink", " ", "\n", "#", ...).  Two adjacent atoms  *)
(* are adjacent characters of the text ("x","TYPE" is the text xTYPE).     *)
(* A path is a sequence of segments and a segment is a sequence            *)
(* <<stem, ext1, ...>>: <<"a", ".pipe">> is the name a.pipe.               *)
(***************************************************************************)
EXTENDS Integers, Sequences, FiniteSets, TLC

VARIABLES
    fs,       \* the files on disk: path -> text, or Absent
    dirs,     \* the directories on disk
    files,    \* the inventory find_tinybird_files returned
    pc,       \* the position of run_migration_check
    report,   \* the MigrationCheckResult of each check that has returned
    fixed,    \* fixed_issues of the remediation routine that is waiting at a prompt
    prompts,  \* the prompts of ask_user_confirmation so far, each with its answer
    snap,     \* history: the tree at the start, and the tree after each call of a
              \* routine under test
    denied    \* the paths at which creating a file, or opening one for writing,
              \* raises PermissionError

vars == <<fs, dirs, files, pc, report, fixed, prompts, snap, denied>>

\* no file at a path: a value no text equals
Absent == <<"<absent>">>

\* the text of a file whose bytes are not valid UTF-8: Path.read_text raises
\* UnicodeDecodeError on it
Undecodable == <<"<bytes>">>

\* Python's None where a list of issues may stand: a value no such list equals
None == <<[kind |-> "<None>"]>>

\* bounds of the model: the lines of a text under test, and the calls of the
\* routine under test
MaxLines == 3
MaxCalls == 2

-----------------------------------------------------------------------------
(* Text: atoms, lines, split and join *)

NL == "\n"

\* str.split('\n')
RECURSIVE Split(_)
Split(s) ==
    IF \A i \in 1..Len(s) : s[i] # NL THEN <<s>>
    ELSE LET i == CHOOSE k \in 1..Len(s) : s[k] = NL /\ \A j \in 1..(k-1) : s[j] # NL
         IN <<SubSeq(s, 1, i-1)>> \o Split(SubSeq(s, i+1, Len(s)))

\* '\n'.join(lines)
RECURSIVE Join(_)
Join(lines) ==
    IF lines = <<>> THEN <<>>
    ELSE IF Len(lines) = 1 THEN lines[1]
    ELSE lines[1] \o <<NL>> \o Join(Tail(lines))

\* \s of the re module, on atoms
IsSpace(a) == a \in {" ", NL}

\* re.IGNORECASE, on atoms: the atoms that differ only in case
Fold(a) ==
    CASE a = "TYPE" -> "type"
      [] a = "SINK" -> "sink"
      [] a = "INCLUDE" -> "include"
      [] a = "SHARED_WITH" -> "shared_with"
      [] a = "IMPORT_SERVICE" -> "import_service"
      [] OTHER -> a

\* [A-Z] under re.IGNORECASE: the atom starts with a letter
IsLetter(a) == a \notin {" ", NL, "#", ">", "\"", ":"}

\* str.strip()
RECURSIVE LStrip(_)
LStrip(s) == IF s # <<>> /\ IsSpace(Head(s)) THEN LStrip(Tail(s)) ELSE s

RECURSIVE RStrip(_)
RStrip(s) ==
    IF s # <<>> /\ IsSpace(s[Len(s)]) THEN RStrip(SubSeq(s, 1, Len(s)-1)) ELSE s

Strip(s) == RStrip(LStrip(s))

\* str.startswith(prefix), prefix one atom
StartsWith(s, a) == s # <<>> /\ s[1] = a

\* the pattern TYPE\s+sink (IGNORECASE) matches at position i of s
TypeSinkAt(s, i) ==
    /\ Fold(s[i]) = "type"
    /\ \E j \in (i+2)..Len(s) :
          /\ Fold(s[j]) = "sink"
          /\ \A k \in (i+1)..(j-1) : IsSpace(s[k])

\* re.compile(r'TYPE\s+sink', re.IGNORECASE).search(content)
SearchTypeSink(s) == \E i \in 1..Len(s) : TypeSinkAt(s, i)

\* a variant that looks for the declaration anywhere in the line
MatchTypeSinkLineMutant(line) == SearchTypeSink(line)

\* re.match(r'^\s*TYPE\s+sink', line, re.IGNORECASE)
MatchTypeSinkLine(line) ==
    \E i \in 1..Len(line) :
        /\ \A k \in 1..(i-1) : IsSpace(line[k])
        /\ TypeSinkAt(line, i)

\* the text "# COMMENTED OUT FOR FORWARD MIGRATION: "
Marker == <<"#", " ", "COMMENTED OUT FOR FORWARD MIGRATION", ":", " ">>

\* f"# COMMENTED OUT FOR FORWARD MIGRATION: {line}"
Comment(line) == Marker \o line

-----------------------------------------------------------------------------
(* The text transformations of the remediation routines *)

\* a variant of the line loop that comments the declaration line alone
RECURSIVE CommentSinkLinesMutant(_, _)
CommentSinkLinesMutant(lines, in_sink_section) ==
    IF lines = <<>> THEN <<>>
    ELSE (IF MatchTypeSinkLine(Head(lines)) THEN <<Comment(Head(lines))>> ELSE <<Head(lines)>>)
             \o CommentSinkLinesMutant(Tail(lines), in_sink_section)

\* fix_sinks, the loop over the lines of one file (main.py 122-136)
RECURSIVE CommentSinkLines(_, _)
CommentSinkLines(lines, in_sink_section) ==
    IF lines = <<>> THEN <<>>
    ELSE LET line == Head(lines)
             s == Strip(line)
         IN IF MatchTypeSinkLine(line)
            THEN <<Comment(line)>> \o CommentSinkLines(Tail(lines), TRUE)
            ELSE IF in_sink_section /\ (StartsWith(s, "EXPORT_") \/ StartsWith(s, "IMPORT_"))
            THEN <<Comment(line)>> \o CommentSinkLines(Tail(lines), in_sink_section)
            ELSE IF in_sink_section /\ (s = <<>> \/ ~StartsWith(s, "#"))
            THEN IF s # <<>> /\ ~StartsWith(s, "NODE") /\ ~StartsWith(s, "SQL")
                 THEN <<Comment(line)>> \o CommentSinkLines(Tail(lines), in_sink_section)
                 ELSE <<line>> \o CommentSinkLines(Tail(lines),
                          IF s # <<>> /\ ~StartsWith(s, "#") THEN FALSE ELSE in_sink_section)
            ELSE <<line>> \o CommentSinkLines(Tail(lines), in_sink_section)

\* fix_sinks, the new text of one file: split, comment, join (main.py 118-139)
SinksText(content) == Join(CommentSinkLines(Split(content), FALSE))

\* the end of the match of (INCLUDE\s+[^\n]+) (IGNORECASE) starting at i, 0 if none:
\* \s+ takes the longest run of spaces that leaves a character other than a
\* newline for [^\n]+, which then runs to the end of that line
IncludeMatchEnd(s, i) ==
    IF Fold(s[i]) # "include" THEN 0
    ELSE LET K == {k \in 1..(Len(s) - i - 1) :
                      /\ \A j \in (i+1)..(i+k) : IsSpace(s[j])
                      /\ s[i+k+1] # NL}
         IN IF K = {} THEN 0
            ELSE LET k == CHOOSE x \in K : \A y \in K : y <= x
                     Q == {q \in (i+k+1)..Len(s) : \A j \in (i+k+1)..q : s[j] # NL}
                 IN CHOOSE q \in Q : \A r \in Q : r <= q

\* include_pattern.search(content) of fix_include_files (main.py 192, 199)
SearchIncludeStatement(s) == \E i \in 1..Len(s) : IncludeMatchEnd(s, i) # 0

\* include_pattern.sub(r'# COMMENTED OUT FOR FORWARD MIGRATION: \1', content), from i on
RECURSIVE IncludeSubFrom(_, _)
IncludeSubFrom(s, i) ==
    IF i > Len(s) THEN <<>>
    ELSE LET e == IncludeMatchEnd(s, i)
         IN IF e = 0 THEN <<s[i]>> \o IncludeSubFrom(s, i+1)
            ELSE Comment(SubSeq(s, i, e)) \o IncludeSubFrom(s, e+1)

\* fix_include_files, the new text of one file (main.py 205)
IncludesText(content) == IncludeSubFrom(content, 1)

\* the position of the > of SHARED_WITH\s*> (IGNORECASE) starting at i, 0 if none
SharedWithAt(s, i) ==
    IF Fold(s[i]) # "shared_with" THEN 0
    ELSE LET G == {g \in (i+1)..Len(s) :
                      s[g] = ">" /\ \A j \in (i+1)..(g-1) : IsSpace(s[j])}
         IN IF G = {} THEN 0 ELSE CHOOSE g \in G : TRUE

\* re.search(r'SHARED_WITH\s*>', content, re.IGNORECASE)
SearchSharedWith(s) == \E i \in 1..Len(s) : SharedWithAt(s, i) # 0

\* the lookahead (?=\n\n|\n[A-Z]|\Z) (IGNORECASE) at position q
SharedLookahead(s, q) ==
    \/ q = Len(s) + 1
    \/ q < Len(s) /\ s[q] = NL /\ (s[q+1] = NL \/ IsLetter(s[q+1]))

\* shared_pattern.sub('', content), from i on (main.py 150, 161)
RECURSIVE SharedSubFrom(_, _)
SharedSubFrom(s, i) ==
    IF i > Len(s) THEN <<>>
    ELSE LET g == SharedWithAt(s, i)
         IN IF g = 0 THEN <<s[i]>> \o SharedSubFrom(s, i+1)
            ELSE LET q == CHOOSE x \in (g+1)..(Len(s)+1) :
                              /\ SharedLookahead(s, x)
                              /\ \A y \in (g+1)..(x-1) : ~SharedLookahead(s, y)
                 IN SharedSubFrom(s, q)

\* re.sub(r'\n{3,}', '\n\n', text) (main.py 163)
RECURSIVE CollapseNewlines(_)
CollapseNewlines(s) ==
    IF Len(s) >= 3 /\ s[1] = NL /\ s[2] = NL /\ s[3] = NL
    THEN LET R == {r \in 3..Len(s) : \A j \in 1..r : s[j] = NL}
             r == CHOOSE x \in R : \A y \in R : y <= x
         IN <<NL, NL>> \o CollapseNewlines(SubSeq(s, r+1, Len(s)))
    ELSE IF s = <<>> THEN <<>>
    ELSE <<s[1]>> \o CollapseNewlines(Tail(s))

\* fix_shared_datasources, the new text of one file (main.py 161-163)
SharedText(content) == CollapseNewlines(SharedSubFrom(content, 1))

\* 'NODE' in content
HasNode(s) == \E i \in 1..Len(s) : s[i] = "NODE"

\* a variant that appends the declaration instead of prepending it
EndpointTextMutant(content) == Join(Split(content) \o <<<<"NODE", " ", "endpoint">>>>)

\* fix_endpoint_types, the new text of one file (main.py 243-246)
EndpointText(content) == Join(<<<<"NODE", " ", "endpoint">>>> \o Split(content))

\* re.compile(r'INCLUDE\s+', re.IGNORECASE).search(content) of check_include_files
SearchInclude(s) ==
    \E i \in 1..(Len(s) - 1) : Fold(s[i]) = "include" /\ IsSpace(s[i+1])

\* re.compile(r'IMPORT_SERVICE\s+"?dynamodb"?', re.IGNORECASE).search(content)
SearchDynamodb(s) ==
    \E i \in 1..(Len(s) - 1) :
        /\ s[i] = "IMPORT_" /\ s[i+1] = "SERVICE"
        /\ \E j \in (i+3)..Len(s) :
              /\ \A k \in (i+2)..(j-1) : IsSpace(s[k])
              /\ \/ s[j] = "dynamodb"
                 \/ s[j] = "\"" /\ j < Len(s) /\ s[j+1] = "dynamodb"

-----------------------------------------------------------------------------
(* Paths and the file tree *)

Front(s) == SubSeq(s, 1, Len(s) - 1)
Last(s) == s[Len(s)]

\* Path.suffix of a segment
Suffix(seg) == IF Len(seg) > 1 THEN Last(seg) ELSE ""

\* Path.parent: the parent of "." is "."
Parent(p) == IF p = <<>> THEN <<>> ELSE Front(p)

\* Path.name: the name of "." is empty
PathName(p) == IF p = <<>> THEN <<"">> ELSE Last(p)

\* Path.with_suffix(suffix) of a segment, suffix given as its dot-parts
WithSuffix(seg, exts) == (IF Len(seg) > 1 THEN Front(seg) ELSE seg) \o exts

\* backup_file: file_path.with_suffix(f"{file_path.suffix}.backup") (main.py 61)
BackupPath(p) ==
    Parent(p) \o <<WithSuffix(Last(p),
                     (IF Suffix(Last(p)) = "" THEN <<>> ELSE <<Suffix(Last(p))>>)
                         \o <<".backup">>)>>

\* d is p or an ancestor of p
IsPrefix(d, p) == Len(d) <= Len(p) /\ SubSeq(p, 1, Len(d)) = d

\* self.project_path, Path("./tinybird")
ProjectPath == <<<<"tinybird">>>>

PipeA == ProjectPath \o <<<<"pipes">>, <<"a", ".pipe">>>>
DsD == ProjectPath \o <<<<"d", ".datasource">>>>
DsV == ProjectPath \o <<<<"vendor">>, <<"legacy">>, <<"v", ".datasource">>>>
VendorReadme == ProjectPath \o <<<<"vendor">>, <<"readme", ".md">>>>
EndpE == ProjectPath \o <<<<"e", ".endpoint">>>>
InclX == ProjectPath \o <<<<"includes">>, <<"x", ".incl">>>>
VersionTxt == ProjectPath \o <<<<"version", ".txt">>>>
\* a second x.incl, in the vendor directory
InclV == ProjectPath \o <<<<"vendor">>, <<"x", ".incl">>>>
\* a plain file whose own name is vendor
VendorFile == ProjectPath \o <<<<"pipes">>, <<"vendor">>>>

\* the files a tree may hold at the start
SourcePaths == {PipeA, DsD, DsV, VendorReadme, EndpE, InclX, VersionTxt, InclV, VendorFile}

\* backup_dir / incl_file.name (main.py 220, 224)
MovePath(p) == ProjectPath \o <<<<"includes_backup">>, Last(p)>>

\* every path the program may touch
AllPaths == SourcePaths \cup {BackupPath(p) : p \in SourcePaths}
                        \cup {MovePath(p) : p \in SourcePaths}

\* the directories above the files of a set
Ancestors(P) == UNION {{SubSeq(p, 1, n) : n \in 0..(Len(p) - 1)} : p \in P}

\* Path.is_file()
IsFile(tree, p) == p \in DOMAIN tree /\ tree[p] # Absent

\* Path.read_text() returns: the file is there and its bytes decode
Readable(tree, p) == IsFile(tree, p) /\ tree[p] # Undecodable

\* a variant of the copy that writes an empty backup
BackupFileMutant(tree, p) == [tree EXCEPT ![BackupPath(p)] = <<>>]

\* backup_file: shutil.copy2(file_path, backup_path) (main.py 59-63)
BackupFile(tree, p) == [tree EXCEPT ![BackupPath(p)] = tree[p]]

\* Path.write_text
WriteText(tree, p, content) == [tree EXCEPT ![p] = content]

\* a variant of the try block that writes the file although the backup raised
RewriteMutant(tree, f, content) ==
    IF f \in denied THEN [fs |-> tree, ok |-> FALSE]
    ELSE [fs |-> WriteText(IF BackupPath(f) \in denied THEN tree ELSE BackupFile(tree, f),
                           f, content),
          ok |-> TRUE]

\* the try block of a remediation routine once the pattern has matched:
\* backup_file, then write_text, then fixed_issues.append; when either call
\* raises, the except clause prints and the loop goes on (main.py 113-143,
\* 156-169, 200-211, 238-250).  copy2 gives the backup the mode of the file, so
\* the backup of a read-only file is read-only: the file itself is never
\* written, every later copy would carry the same text, and denied need not grow
Rewrite(tree, f, content) ==
    IF BackupPath(f) \in denied THEN [fs |-> tree, ok |-> FALSE]
    ELSE IF f \in denied THEN [fs |-> BackupFile(tree, f), ok |-> FALSE]
    ELSE [fs |-> WriteText(BackupFile(tree, f), f, content), ok |-> TRUE]

\* shutil.rmtree(d), the files
RmtreeFiles(tree, d) == [p \in DOMAIN tree |-> IF IsPrefix(d, p) THEN Absent ELSE tree[p]]

\* shutil.rmtree(d), the directories
RmtreeDirs(ds, d) == {x \in ds : ~IsPrefix(d, x)}

\* the orders in which a set can be listed
Perms(S) ==
    {s \in [1..Cardinality(S) -> S] : \A i, j \in 1..Cardinality(S) : i # j => s[i] # s[j]}

\* the name matches *version* or *.mdc (main.py 260-261)
IsVersionName(seg) == seg[1] = "version" \/ Suffix(seg) = ".mdc"

\* find_tinybird_files, the files of one bucket (main.py 89-100)
Bucket(tree, name) ==
    {p \in DOMAIN tree :
        /\ IsFile(tree, p) /\ IsPrefix(ProjectPath, p) /\ p # ProjectPath
        /\ name = (CASE Suffix(Last(p)) = ".datasource" -> "datasources"
                     [] Suffix(Last(p)) = ".pipe" -> "pipes"
                     [] Suffix(Last(p)) = ".endpoint" -> "endpoints"
                     [] Suffix(Last(p)) = ".incl" -> "includes"
                     [] OTHER -> IF \E i \in 1..Len(p) : p[i] = <<"vendor">>
                                 THEN "vendor" ELSE "ignored")}

\* find_tinybird_files: the inventories it may return, in any listing order;
\* an empty dict when the project path does not exist (main.py 76-102)
Inventories(tree, ds) ==
    IF ProjectPath \notin ds THEN {<<>>}
    ELSE {[datasources |-> a, pipes |-> b, endpoints |-> c, includes |-> d, vendor |-> e] :
             a \in Perms(Bucket(tree, "datasources")), b \in Perms(Bucket(tree, "pipes")),
             c \in Perms(Bucket(tree, "endpoints")), d \in Perms(Bucket(tree, "includes")),
             e \in Perms(Bucket(tree, "vendor"))}

-----------------------------------------------------------------------------
(* The detectors *)

\* a variant of the loop that a read error ends: the files after the failing
\* one are not examined
ScanIssuesMutant(tree, bucket, matched, kind) ==
    LET Bad == {i \in 1..Len(bucket) : ~Readable(tree, bucket[i])}
        stop == IF Bad = {} THEN Len(bucket) ELSE CHOOSE i \in Bad : \A j \in Bad : i <= j
        Hit(p) == ~Readable(tree, p) \/ p \in matched
        hits == SelectSeq(SubSeq(bucket, 1, stop), Hit)
    IN [i \in 1..Len(hits) |->
           [kind |-> IF Readable(tree, hits[i]) THEN kind ELSE "read_error",
            file |-> hits[i]]]

\* the loop of a detector over a bucket: one issue for each file whose text
\* matches (the files in matched), or whose read raises (the file is gone, or
\* its bytes do not decode), in the order of the bucket
ScanIssues(tree, bucket, matched, kind) ==
    LET Hit(p) == ~Readable(tree, p) \/ p \in matched
        hits == SelectSeq(bucket, Hit)
    IN [i \in 1..Len(hits) |->
           [kind |-> IF Readable(tree, hits[i]) THEN kind ELSE "read_error",
            file |-> hits[i]]]

\* MigrationCheckResult(...), fixed_issues left at its default (main.py 13-22)
Result(status, issues, files_checked, auto_fixable) ==
    [status |-> IF issues # <<>> THEN status ELSE "PASS",
     issues |-> issues,
     files_checked |-> files_checked,
     auto_fixable |-> auto_fixable,
     fixed_issues |-> None]

\* check_version_tags (main.py 254-276)
VersionResult(tree, ds) ==
    LET found == {p \in (DOMAIN tree) \cup ds :
                     /\ IsFile(tree, p) \/ p \in ds
                     /\ IsPrefix(ProjectPath, p) /\ p # ProjectPath
                     /\ IsVersionName(Last(p))}
        version_files == CHOOSE s \in Perms(found) : TRUE
    IN Result("WARNING",
              IF found = {} THEN <<[kind |-> "no_version_files"]>> ELSE <<>>,
              version_files, FALSE)

\* check_sinks up to the prompt (main.py 278-300)
SinksResult(inv, tree) ==
    LET issues == ScanIssues(tree, inv.pipes,
                  {p \in DOMAIN tree : Readable(tree, p) /\ SearchTypeSink(tree[p])}, "sink")
    IN Result("FAIL", issues, inv.pipes, issues # <<>>)

\* check_shared_datasources up to the prompt (main.py 317-345)
SharedResult(inv, tree) ==
    LET found == ScanIssues(tree, inv.datasources,
                  {p \in DOMAIN tree : Readable(tree, p) /\ SearchSharedWith(tree[p])}, "shared")
        issues == IF inv.vendor # <<>>
                  THEN Append(found, [kind |-> "vendor", count |-> Len(inv.vendor)])
                  ELSE found
    IN Result("FAIL", issues, inv.datasources \o inv.vendor, issues # <<>>)

\* check_dynamodb_connections (main.py 362-385)
DynamodbResult(inv, tree) ==
    LET issues == ScanIssues(tree, inv.datasources,
                  {p \in DOMAIN tree : Readable(tree, p) /\ SearchDynamodb(tree[p])}, "dynamodb")
    IN Result("WARNING", issues, inv.datasources, FALSE)

\* the test of check_endpoint_types: 'NODE' not in content
LacksNode(s) == ~HasNode(s)

\* check_endpoint_types up to the prompt (main.py 387-409)
EndpointResult(inv, tree) ==
    LET issues == ScanIssues(tree, inv.endpoints,
                  {p \in DOMAIN tree : Readable(tree, p) /\ LacksNode(tree[p])}, "endpoint")
    IN Result("WARNING", issues, inv.endpoints, issues # <<>>)

\* check_include_files up to the prompt (main.py 426-454)
IncludeResult(inv, tree) ==
    LET all_files == inv.pipes \o inv.datasources \o inv.endpoints
        found == ScanIssues(tree, all_files,
                  {p \in DOMAIN tree : Readable(tree, p) /\ SearchInclude(tree[p])}, "include")
        issues == IF inv.includes # <<>>
                  THEN Append(found, [kind |-> "incl_files", count |-> Len(inv.includes)])
                  ELSE found
    IN Result("WARNING", issues, all_files \o inv.includes, issues # <<>>)

-----------------------------------------------------------------------------
(* The remediation routines *)

\* fix_sinks: the loop over files['pipes'] (main.py 104-145)
RECURSIVE FixSinks(_, _, _)
FixSinks(tree, todo, fixed_issues) ==
    IF todo = <<>> THEN [fs |-> tree, fixed |-> fixed_issues]
    ELSE LET f == Head(todo)
             r == Rewrite(tree, f, SinksText(tree[f]))
         IN IF Readable(tree, f) /\ SearchTypeSink(tree[f])
            THEN FixSinks(r.fs, Tail(todo),
                          IF r.ok
                          THEN Append(fixed_issues, [kind |-> "commented_sinks", file |-> f])
                          ELSE fixed_issues)
            ELSE FixSinks(tree, Tail(todo), fixed_issues)

\* fix_shared_datasources: the loop over files['datasources'] (main.py 147-169)
RECURSIVE FixSharedFiles(_, _, _)
FixSharedFiles(tree, todo, fixed_issues) ==
    IF todo = <<>> THEN [fs |-> tree, fixed |-> fixed_issues]
    ELSE LET f == Head(todo)
             r == Rewrite(tree, f, SharedText(tree[f]))
         IN IF Readable(tree, f) /\ SearchSharedWith(tree[f])
            THEN FixSharedFiles(r.fs, Tail(todo),
                                IF r.ok
                                THEN Append(fixed_issues, [kind |-> "removed_shared", file |-> f])
                                ELSE fixed_issues)
            ELSE FixSharedFiles(tree, Tail(todo), fixed_issues)

\* fix_shared_datasources: the walk up from a directory to one named vendor,
\* or to the top (main.py 177-178)
RECURSIVE WalkToVendor(_)
WalkToVendor(d) ==
    IF PathName(d) # <<"vendor">> /\ Parent(d) # d THEN WalkToVendor(Parent(d)) ELSE d

\* fix_shared_datasources: vendor_dir, from the first file of files['vendor']
\* (main.py 173-179)
VendorDir(inv) == WalkToVendor(Parent(inv.vendor[1]))

\* fix_include_files: the loop over pipes, datasources and endpoints (main.py 189-211)
RECURSIVE FixIncludes(_, _, _)
FixIncludes(tree, todo, fixed_issues) ==
    IF todo = <<>> THEN [fs |-> tree, fixed |-> fixed_issues]
    ELSE LET f == Head(todo)
             r == Rewrite(tree, f, IncludesText(tree[f]))
         IN IF Readable(tree, f) /\ SearchIncludeStatement(tree[f])
            THEN FixIncludes(r.fs, Tail(todo),
                             IF r.ok
                             THEN Append(fixed_issues,
                                         [kind |-> "commented_includes", file |-> f])
                             ELSE fixed_issues)
            ELSE FixIncludes(tree, Tail(todo), fixed_issues)

\* fix_include_files: the loop that moves the .incl files; a file that is gone
\* makes shutil.move raise, and nothing catches it (main.py 223-226)
RECURSIVE MoveIncludes(_, _, _)
MoveIncludes(tree, todo, fixed_issues) ==
    IF todo = <<>> THEN [fs |-> tree, fixed |-> fixed_issues, raised |-> FALSE]
    ELSE LET f == Head(todo)
         IN IF ~IsFile(tree, f) THEN [fs |-> tree, fixed |-> fixed_issues, raised |-> TRUE]
            ELSE MoveIncludes([tree EXCEPT ![MovePath(f)] = tree[f], ![f] = Absent],
                              Tail(todo),
                              Append(fixed_issues,
                                     [kind |-> "moved", file |-> f, to |-> MovePath(f)]))

\* fix_endpoint_types: the loop over files['endpoints'] (main.py 230-252)
RECURSIVE FixEndpointTypes(_, _, _)
FixEndpointTypes(tree, todo, fixed_issues) ==
    IF todo = <<>> THEN [fs |-> tree, fixed |-> fixed_issues]
    ELSE LET f == Head(todo)
             r == Rewrite(tree, f, EndpointText(tree[f]))
         IN IF Readable(tree, f) /\ ~HasNode(tree[f])
            THEN FixEndpointTypes(r.fs, Tail(todo),
                                  IF r.ok
                                  THEN Append(fixed_issues, [kind |-> "added_node", file |-> f])
                                  ELSE fixed_issues)
            ELSE FixEndpointTypes(tree, Tail(todo), fixed_issues)

\* a variant that sets FIXED whatever the routine returned
WithFixedMutant(result, fixed_issues) ==
    [result EXCEPT !.fixed_issues = fixed_issues, !.status = "FIXED"]

\* result.fixed_issues = fixed_issues; if fixed_issues: result.status = "FIXED"
WithFixed(result, fixed_issues) ==
    [result EXCEPT !.fixed_issues = fixed_issues,
                   !.status = IF fixed_issues # <<>> THEN "FIXED" ELSE @]

-----------------------------------------------------------------------------
(* The trees a run may start from *)

\* lines of text, as atoms
SinkLine == <<"TYPE", " ", "sink">>
LowerSinkLine == <<" ", "type", " ", "sink">>
ExportLine == <<"EXPORT_", "SERVICE", " ", "x">>
ImportLine == <<" ", "IMPORT_", "SERVICE", " ", "x">>
NodeLine == <<"NODE", " ", "x">>
SqlLine == <<"SQL", " ", ">">>
BlankLine == <<>>
HashLine == <<"#", " ", "x">>
OtherLine == <<"x", " ", "x">>
IncludeLine == <<"INCLUDE", " ", "\"", "x", "\"">>
InlineSinkLine == <<"x", " ", "TYPE", " ", "sink">>
SharedLine == <<"SHARED_WITH", " ", ">">>
DynamodbLine == <<"IMPORT_", "SERVICE", " ", "\"", "dynamodb", "\"">>

PipeTexts ==
    {Join(<<SinkLine, ExportLine, NodeLine>>),
     Join(<<SinkLine, IncludeLine, NodeLine>>),
     Join(<<IncludeLine, NodeLine, SinkLine>>),
     Join(<<NodeLine, InlineSinkLine>>),
     Join(<<IncludeLine, NodeLine>>),
     Join(<<NodeLine, SqlLine, OtherLine>>)}

DatasourceTexts ==
    {Join(<<OtherLine, SharedLine, <<" ", "x">>, BlankLine, OtherLine>>),
     Join(<<OtherLine, DynamodbLine>>),
     Join(<<IncludeLine, OtherLine>>),
     Join(<<OtherLine>>)}

EndpointTexts ==
    {Join(<<OtherLine>>),
     Join(<<IncludeLine, OtherLine>>),
     Join(<<NodeLine, OtherLine>>)}

\* the texts a file at path p may hold at the start
TextsOf(p) ==
    CASE Suffix(Last(p)) = ".pipe" -> PipeTexts
      [] p = DsV -> {Join(<<OtherLine>>), Join(<<SharedLine, OtherLine>>)}
      [] p = InclV -> {Join(<<NodeLine>>)}
      [] Suffix(Last(p)) = ".datasource" -> DatasourceTexts
      [] Suffix(Last(p)) = ".endpoint" -> EndpointTexts
      [] OTHER -> {Join(<<OtherLine>>)}

\* what a source file may be at the start: absent, or one of its texts
Options(p) == TextsOf(p) \cup {Absent}

\* the trees: every source file is absent or holds one of its texts, and nothing
\* else exists
Trees ==
    {[p \in AllPaths |->
         CASE p = PipeA -> a [] p = DsD -> b [] p = DsV -> c [] p = VendorReadme -> d
           [] p = EndpE -> e [] p = InclX -> f [] p = VersionTxt -> g [] OTHER -> Absent] :
        a \in Options(PipeA), b \in Options(DsD), c \in Options(DsV),
        d \in Options(VendorReadme), e \in Options(EndpE), f \in Options(InclX),
        g \in Options(VersionTxt)}

Present(tree) == {p \in DOMAIN tree : tree[p] # Absent}

Init ==
    /\ fs \in Trees
    /\ \E root \in BOOLEAN :
          /\ ~root => Present(fs) = {}
          /\ dirs = Ancestors(Present(fs)) \cup {<<>>} \cup (IF root THEN {ProjectPath} ELSE {})
    /\ files = <<>>
    /\ pc = "start"
    /\ report = <<>>
    /\ fixed = None
    /\ prompts = <<>>
    /\ snap = <<fs>>
    /\ denied = {}

-----------------------------------------------------------------------------
(* run_migration_check, one action for each stretch between two prompts *)

\* files = self.find_tinybird_files() (main.py 476)
FindFiles ==
    /\ pc = "start"
    /\ files' \in Inventories(fs, dirs)
    /\ pc' = "version"
    /\ UNCHANGED <<fs, dirs, report, fixed, prompts, snap, denied>>

\* version_check = self.check_version_tags(files) (main.py 483)
CheckVersionTags ==
    /\ pc = "version"
    /\ report' = report @@ ("version" :> VersionResult(fs, dirs))
    /\ pc' = "sinks"
    /\ UNCHANGED <<fs, dirs, files, fixed, prompts, snap, denied>>

\* a detector looks its bucket up in the dict: files[name] raises KeyError on the
\* empty dict, and the error leaves run_migration_check
Detect(at, key, name, result, prompt, next) ==
    /\ pc = at
    /\ IF key \notin DOMAIN files
       THEN pc' = "KeyError" /\ UNCHANGED report
       ELSE /\ report' = report @@ (name :> result)
            /\ pc' = IF result.issues # <<>> /\ result.auto_fixable THEN prompt ELSE next
    /\ UNCHANGED <<fs, dirs, files, fixed, prompts, snap, denied>>

\* ask_user_confirmation: what the operator may answer (main.py 65-74)
Answers == {TRUE, FALSE}

\* check_sinks up to its prompt (main.py 278-308)
CheckSinks ==
    Detect("sinks", "pipes", "sinks", SinksResult(files, fs), "sinks_confirm", "shared")

\* the prompt is answered: ask_user_confirmation returns (main.py 65-74)
Ask(message, answer) == prompts' = Append(prompts, [message |-> message, answer |-> answer])

\* check_sinks from the answer on (main.py 308-315)
ConfirmSinks ==
    /\ pc = "sinks_confirm"
    /\ \E answer \in Answers :
          /\ Ask("sinks", answer)
          /\ IF answer
             THEN LET out == FixSinks(fs, files.pipes, <<>>)
                  IN /\ fs' = out.fs
                     /\ report' = [report EXCEPT !["sinks"] = WithFixed(@, out.fixed)]
             ELSE UNCHANGED <<fs, report>>
    /\ pc' = "shared"
    /\ UNCHANGED <<dirs, files, fixed, snap, denied>>

\* check_shared_datasources up to its prompt (main.py 317-353)
CheckSharedDatasources ==
    Detect("shared", "datasources", "shared", SharedResult(files, fs),
           "shared_confirm", "dynamodb")

\* check_shared_datasources from the answer to the prompt of fix_shared_datasources
\* for the vendor directory, or to its return (main.py 353-360, 147-183)
ConfirmShared ==
    /\ pc = "shared_confirm"
    /\ \E answer \in Answers :
          /\ Ask("shared", answer)
          /\ IF answer
             THEN LET out == FixSharedFiles(fs, files.datasources, <<>>)
                  IN /\ fs' = out.fs
                     /\ IF files.vendor # <<>> /\ VendorDir(files) \in dirs
                        THEN pc' = "vendor_confirm" /\ fixed' = out.fixed /\ UNCHANGED report
                        ELSE /\ pc' = "dynamodb" /\ UNCHANGED fixed
                             /\ report' = [report EXCEPT !["shared"] = WithFixed(@, out.fixed)]
             ELSE pc' = "dynamodb" /\ UNCHANGED <<fs, report, fixed>>
    /\ UNCHANGED <<dirs, files, snap, denied>>

\* fix_shared_datasources from the answer about the vendor directory on:
\* shutil.rmtree of the current directory empties it and then raises OSError
\* on the directory itself, and nothing catches it (main.py 183-187, 355-360)
ConfirmVendor ==
    /\ pc = "vendor_confirm"
    /\ \E answer \in Answers :
          /\ Ask("vendor", answer)
          /\ IF ~answer
             THEN /\ report' = [report EXCEPT !["shared"] = WithFixed(@, fixed)]
                  /\ pc' = "dynamodb"
                  /\ UNCHANGED <<fs, dirs>>
             ELSE /\ fs' = RmtreeFiles(fs, VendorDir(files))
                  /\ IF VendorDir(files) = <<>>
                     THEN /\ dirs' = {<<>>}
                          /\ pc' = "OSError"
                          /\ UNCHANGED report
                     ELSE /\ dirs' = RmtreeDirs(dirs, VendorDir(files))
                          /\ pc' = "dynamodb"
                          /\ report' = [report EXCEPT !["shared"] =
                                 WithFixed(@, Append(fixed, [kind |-> "removed_vendor",
                                                             dir |-> VendorDir(files)]))]
    /\ fixed' = None
    /\ UNCHANGED <<files, snap, denied>>

\* check_dynamodb_connections (main.py 362-385)
CheckDynamodbConnections ==
    Detect("dynamodb", "datasources", "dynamodb", DynamodbResult(files, fs),
           "endpoint", "endpoint")

\* check_endpoint_types up to its prompt (main.py 387-417)
CheckEndpointTypes ==
    Detect("endpoint", "endpoints", "endpoint", EndpointResult(files, fs),
           "endpoint_confirm", "include")

\* a variant that runs the remediation whatever the answer
ConfirmEndpointTypesMutant ==
    /\ pc = "endpoint_confirm"
    /\ \E answer \in Answers :
          /\ Ask("endpoint", answer)
          /\ LET out == FixEndpointTypes(fs, files.endpoints, <<>>)
             IN /\ fs' = out.fs
                /\ report' = [report EXCEPT !["endpoint"] = WithFixed(@, out.fixed)]
    /\ pc' = "include"
    /\ UNCHANGED <<dirs, files, fixed, snap, denied>>

\* check_endpoint_types from the answer on (main.py 417-424)
ConfirmEndpointTypes ==
    /\ pc = "endpoint_confirm"
    /\ \E answer \in Answers :
          /\ Ask("endpoint", answer)
          /\ IF answer
             THEN LET out == FixEndpointTypes(fs, files.endpoints, <<>>)
                  IN /\ fs' = out.fs
                     /\ report' = [report EXCEPT !["endpoint"] = WithFixed(@, out.fixed)]
             ELSE UNCHANGED <<fs, report>>
    /\ pc' = "include"
    /\ UNCHANGED <<dirs, files, fixed, snap, denied>>

\* check_include_files up to its prompt (main.py 426-462)
CheckIncludeFiles ==
    Detect("include", "pipes", "include", IncludeResult(files, fs), "include_confirm", "done")

\* check_include_files from the answer to the prompt of fix_include_files for
\* the .incl files, or to its return (main.py 462-469, 189-219)
ConfirmIncludes ==
    /\ pc = "include_confirm"
    /\ \E answer \in Answers :
          /\ Ask("include", answer)
          /\ IF answer
             THEN LET out == FixIncludes(fs, files.pipes \o files.datasources
                                                 \o files.endpoints, <<>>)
                  IN /\ fs' = out.fs
                     /\ IF files.includes # <<>>
                        THEN pc' = "move_confirm" /\ fixed' = out.fixed /\ UNCHANGED report
                        ELSE /\ pc' = "done" /\ UNCHANGED fixed
                             /\ report' = [report EXCEPT !["include"] = WithFixed(@, out.fixed)]
             ELSE pc' = "done" /\ UNCHANGED <<fs, report, fixed>>
    /\ UNCHANGED <<dirs, files, snap, denied>>

\* fix_include_files from the answer about the .incl files on: mkdir raises when
\* the project directory is gone, shutil.move when a file is, and nothing catches
\* either (main.py 219-228, 464-469)
ConfirmMove ==
    /\ pc = "move_confirm"
    /\ \E answer \in Answers :
          /\ Ask("move", answer)
          /\ IF ~answer
             THEN /\ report' = [report EXCEPT !["include"] = WithFixed(@, fixed)]
                  /\ pc' = "done"
                  /\ UNCHANGED <<fs, dirs>>
             ELSE IF ProjectPath \notin dirs
             THEN pc' = "FileNotFoundError" /\ UNCHANGED <<fs, dirs, report>>
             ELSE LET out == MoveIncludes(fs, files.includes, fixed)
                  IN /\ fs' = out.fs
                     /\ dirs' = dirs \cup {ProjectPath \o <<<<"includes_backup">>>>}
                     /\ IF out.raised
                        THEN pc' = "FileNotFoundError" /\ UNCHANGED report
                        ELSE /\ pc' = "done"
                             /\ report' = [report EXCEPT !["include"] = WithFixed(@, out.fixed)]
    /\ fixed' = None
    /\ UNCHANGED <<files, snap, denied>>

Next ==
    \/ FindFiles
    \/ CheckVersionTags
    \/ CheckSinks
    \/ ConfirmSinks
    \/ CheckSharedDatasources
    \/ ConfirmShared
    \/ ConfirmVendor
    \/ CheckDynamodbConnections
    \/ CheckEndpointTypes
    \/ ConfirmEndpointTypes
    \/ CheckIncludeFiles
    \/ ConfirmIncludes
    \/ ConfirmMove

Spec == Init /\ [][Next]_vars

-----------------------------------------------------------------------------
(* Runs over trees with faults: files whose bytes do not decode, paths that  *)
(* cannot be written, a plain file named vendor, two .incl files of one name *)

\* the trees with faults: the pipe and the datasource are always there
FaultTrees ==
    {[p \in AllPaths |->
         CASE p = PipeA -> a [] p = DsD -> b [] p = DsV -> c [] p = VendorReadme -> d
           [] p = EndpE -> e [] p = InclX -> f [] p = InclV -> g [] p = VendorFile -> h
           [] OTHER -> Absent] :
        a \in {Join(<<SinkLine, IncludeLine, NodeLine>>), Undecodable},
        b \in {Join(<<OtherLine, SharedLine, <<" ", "x">>, BlankLine, OtherLine>>), Undecodable},
        c \in {Join(<<SharedLine, OtherLine>>), Absent},
        d \in {Join(<<OtherLine>>), Absent},
        e \in {Join(<<OtherLine>>), Undecodable, Absent},
        f \in {Join(<<OtherLine>>), Absent},
        g \in {Join(<<NodeLine>>), Absent},
        h \in {Join(<<OtherLine>>), Absent}}

\* the paths that may be write-protected: a file that is read-only, or a backup
\* that cannot be created
Protectable == {PipeA, BackupPath(PipeA), DsD, BackupPath(DsD)}

InitFaults ==
    /\ fs \in FaultTrees
    /\ dirs = Ancestors(Present(fs)) \cup {<<>>, ProjectPath}
    /\ denied \in {{}} \cup {{p} : p \in Protectable}
    /\ files = <<>>
    /\ pc = "start"
    /\ report = <<>>
    /\ fixed = None
    /\ prompts = <<>>
    /\ snap = <<fs>>

SpecFaults == InitFaults /\ [][Next]_vars

-----------------------------------------------------------------------------
(* The remediation routines under test: one routine, called again and again  *)
(* on a tree of one file whose text is any text of up to MaxLines lines      *)

TypeLine == <<"x", " ", "TYPE">>
SinkWordLine == <<"sink", " ", "x">>
IncludeWordLine == <<"INCLUDE">>
LowerIncludeLine == <<"x", " ", "include", " ">>
IndentedLine == <<" ", "x">>
LowerSharedLine == <<"x", " ", "shared_with", ">", "x">>
InlineNodeLine == <<"x", "NODE", "x">>

\* the lines the texts under test are made of, for each routine
LinesFor(routine) ==
    CASE routine = "fix_sinks" ->
             {SinkLine, LowerSinkLine, ExportLine, ImportLine, NodeLine, SqlLine, BlankLine,
              HashLine, OtherLine, InlineSinkLine, TypeLine, SinkWordLine, IncludeLine}
      [] routine = "fix_include_files" ->
             {IncludeLine, IncludeWordLine, LowerIncludeLine, BlankLine, OtherLine, HashLine,
              SinkLine}
      [] routine = "fix_shared_datasources" ->
             {SharedLine, LowerSharedLine, IndentedLine, BlankLine, OtherLine, HashLine}
      [] routine = "fix_endpoint_types" ->
             {NodeLine, InlineNodeLine, OtherLine, BlankLine, IncludeLine}

Routines == {"fix_sinks", "fix_include_files", "fix_shared_datasources", "fix_endpoint_types"}

\* the file the routine under test works on
FileFor(routine) ==
    CASE routine = "fix_sinks" -> PipeA
      [] routine = "fix_include_files" -> PipeA
      [] routine = "fix_shared_datasources" -> DsD
      [] routine = "fix_endpoint_types" -> EndpE

\* the texts of up to MaxLines lines
TextsFor(routine) ==
    {Join(ls) : ls \in UNION {[1..n -> LinesFor(routine)] : n \in 0..MaxLines}}

InitText ==
    /\ \E routine \in Routines :
          /\ pc = routine
          /\ \E text \in TextsFor(routine) :
                fs = [p \in AllPaths |-> IF p = FileFor(routine) THEN text ELSE Absent]
    /\ dirs = Ancestors(Present(fs)) \cup {<<>>}
    /\ files \in Inventories(fs, dirs)
    /\ report = <<>>
    /\ fixed = None
    /\ prompts = <<>>
    /\ snap = <<fs>>
    /\ denied = {}

\* what a call of a routine under test leaves: the new tree, the history, and
\* the list it returned
Called(out) ==
    /\ Len(snap) <= MaxCalls
    /\ fs' = out.fs
    /\ snap' = Append(snap, out.fs)
    /\ fixed' = out.fixed
    /\ UNCHANGED <<dirs, files, pc, report, prompts, denied>>

CallFixSinks ==
    pc = "fix_sinks" /\ Called(FixSinks(fs, files.pipes, <<>>))

CallFixIncludeFiles ==
    /\ pc = "fix_include_files"
    /\ Called(FixIncludes(fs, files.pipes \o files.datasources \o files.endpoints, <<>>))

CallFixSharedDatasources ==
    pc = "fix_shared_datasources" /\ Called(FixSharedFiles(fs, files.datasources, <<>>))

CallFixEndpointTypes ==
    pc = "fix_endpoint_types" /\ Called(FixEndpointTypes(fs, files.endpoints, <<>>))

NextText ==
    \/ CallFixSinks
    \/ CallFixIncludeFiles
    \/ CallFixSharedDatasources
    \/ CallFixEndpointTypes

SpecText == InitText /\ [][NextText]_vars

-----------------------------------------------------------------------------
(* Properties *)

Range(s) == {s[i] : i \in 1..Len(s)}

\* the fixes of the kinds that rewrite a file in place
RewriteKinds == {"commented_sinks", "removed_shared", "commented_includes", "added_node"}

\* every fixed issue a remediation routine has recorded so far in the run
AllFixed ==
    (IF fixed # None THEN Range(fixed) ELSE {})
        \cup UNION {Range(report[n].fixed_issues) :
                       n \in {m \in DOMAIN report : report[m].fixed_issues # None}}

\* the files of the inventory
Inventory == UNION {Range(files[b]) : b \in DOMAIN files}

\* C1: in every step in which a remediation routine rewrites a file (it records
\* a fix of that file, or the text of a file of the inventory changes), the
\* file's .backup sibling exists after the step and holds the text the file had
\* before the step.
BackupInvariant ==
    [][\A p \in AllPaths :
          (\/ \E i \in AllFixed' \ AllFixed : i.kind \in RewriteKinds /\ i.file = p
           \/ p \in Inventory /\ fs'[p] # fs[p] /\ fs'[p] # Absent)
          => /\ fs[p] # Absent
             /\ fs'[BackupPath(p)] = fs[p]]_vars

\* C1 witness: a run in which all four routines have rewritten a file, and the
\* endpoint's backup holds its text from before the rewrite
BackupWitness ==
    /\ pc = "done"
    /\ \A k \in RewriteKinds : \E i \in AllFixed : i.kind = k
    /\ fs[EndpE] # snap[1][EndpE]
    /\ fs[BackupPath(EndpE)] = snap[1][EndpE]

\* C2: at every point of a run, a backup that exists holds the text its file
\* had at the start of the run (the first backup is never overwritten).
BackupHoldsStartText ==
    \A p \in SourcePaths :
        fs[BackupPath(p)] # Absent => fs[BackupPath(p)] = snap[1][p]

\* the rules with a remediation routine, by the message of their batch prompt
AutoFixable == {"sinks", "shared", "endpoint", "include"}

\* C3: the tree changes only in a step that answers a prompt with yes; a result
\* has fixed_issues only if the rule's batch prompt was answered yes; the batch
\* prompt of a rule is asked only when its detector reported an issue;
\* and when it is answered no, the tree is unchanged and the rule's result
\* keeps its status, FAIL or WARNING, with no fixed_issues.
ConfirmationGate ==
    [][/\ (fs' # fs \/ dirs' # dirs)
             => Len(prompts') = Len(prompts) + 1 /\ Last(prompts').answer
        /\ \A r \in DOMAIN report' :
              report'[r].fixed_issues # None
              => \E q \in Range(prompts') : q.message = r /\ q.answer
        /\ Len(prompts') > Len(prompts) /\ Last(prompts').message \in AutoFixable
             => LET rule == Last(prompts').message
                IN /\ report[rule].issues # <<>>
                   /\ report[rule].auto_fixable
                   /\ report[rule].fixed_issues = None
                   /\ ~Last(prompts').answer
                        => /\ fs' = fs /\ dirs' = dirs
                           /\ report'[rule] = report[rule]
                           /\ report'[rule].status \in {"FAIL", "WARNING"}
                           /\ report'[rule].fixed_issues = None]_vars

\* C3 witness: the sinks prompt was declined for a pipe that declares a sink,
\* and at the end of the run the pipe is as it was and has no backup
ConfirmationWitness ==
    /\ pc = "done"
    /\ \E i \in 1..Len(prompts) : prompts[i].message = "sinks" /\ ~prompts[i].answer
    /\ report["sinks"].status = "FAIL"
    /\ report["sinks"].fixed_issues = None
    /\ \E i \in 1..Len(prompts) : prompts[i].message = "endpoint" /\ prompts[i].answer
    /\ fs[PipeA] = snap[1][PipeA]
    /\ fs[BackupPath(PipeA)] = Absent

\* the claims' reading of the lines of a text
IsSinkDeclaration(line) == line \in {SinkLine, LowerSinkLine}
IsExportImport(line) == line \in {ExportLine, ImportLine}
IsNodeOrSql(line) == line \in {NodeLine, SqlLine}
IsBlankOrComment(line) == line \in {BlankLine, HashLine}

\* C4: calling fix_sinks again leaves the text of the pipe file as the first
\* call left it.
SinksIdempotent ==
    pc = "fix_sinks" =>
        \A i \in 2..(Len(snap) - 1) : snap[i+1][PipeA] = snap[i][PipeA]

\* C4 witness: fix_sinks was called twice, and the first call commented a line
SinksIdempotentWitness ==
    /\ pc = "fix_sinks"
    /\ Len(snap) >= 3
    /\ snap[2][PipeA] # snap[1][PipeA]
    /\ snap[3][PipeA] = snap[2][PipeA]

\* C5: once a confirmed Sinks or Include Files remediation has changed a file,
\* the rule's detector, run on the tree as it is now, reports no issue for
\* that file.
FixedFilesPassDetection ==
    /\ \A i \in AllFixed :
          i.kind = "commented_sinks" /\ fs[i.file] # snap[1][i.file]
             /\ pc \in {"shared", "shared_confirm"}
          => \A j \in Range(SinksResult(files, fs).issues) : j.file # i.file
    /\ \A i \in AllFixed :
          i.kind = "commented_includes" /\ pc = "done" /\ IsFile(fs, i.file)
          => \A j \in Range(IncludeResult(files, fs).issues) :
                 j.kind = "include" => j.file # i.file

\* the text has the shape of C6: lines, a sink declaration at k, EXPORT_/IMPORT_
\* lines up to m, a NODE or SQL line at m, and no other sink declaration
SinkBlockShape(lines, k, m) ==
    /\ k < m /\ m <= Len(lines)
    /\ IsSinkDeclaration(lines[k])
    /\ \A j \in (k+1)..(m-1) : IsExportImport(lines[j])
    /\ IsNodeOrSql(lines[m])
    /\ \A j \in (1..Len(lines)) \ {k} : ~IsSinkDeclaration(lines[j])

\* C6: for a pipe whose text has that shape, check_sinks reports FAIL with one
\* issue, naming the pipe, and after a call of fix_sinks the lines k..m-1 carry
\* the marker in front and every other line is as it was.
SinkBlockCommented ==
    pc = "fix_sinks" /\ Len(snap) >= 2 =>
        LET lines == Split(snap[1][PipeA])
            after == Split(snap[2][PipeA])
        IN \A k, m \in 1..Len(lines) :
              SinkBlockShape(lines, k, m)
              => /\ SinksResult(files, snap[1]).status = "FAIL"
                 /\ SinksResult(files, snap[1]).issues = <<[kind |-> "sink", file |-> PipeA]>>
                 /\ Len(after) = Len(lines)
                 /\ \A j \in 1..Len(lines) :
                       after[j] = IF k <= j /\ j < m THEN Marker \o lines[j] ELSE lines[j]

\* C6 witness: fix_sinks was called on a text of that shape with an EXPORT_ or
\* IMPORT_ line in the block and a line around the block
SinkBlockWitness ==
    /\ pc = "fix_sinks" /\ Len(snap) >= 2
    /\ LET lines == Split(snap[1][PipeA])
       IN \E k, m \in 1..Len(lines) :
             /\ SinkBlockShape(lines, k, m)
             /\ m > k + 1
             /\ Split(snap[2][PipeA])[k+1] = Marker \o lines[k+1]

\* C7: when a blank or comment line follows a sink declaration, and no sink
\* declaration comes after it, fix_sinks leaves that line and every line after
\* it as they were.
SinkBlockEndsAtBlankOrComment ==
    pc = "fix_sinks" /\ Len(snap) >= 2 =>
        LET lines == Split(snap[1][PipeA])
            after == Split(snap[2][PipeA])
        IN \A k, m \in 1..Len(lines) :
              /\ k < m
              /\ IsSinkDeclaration(lines[k])
              /\ IsBlankOrComment(lines[m])
              /\ \A j \in (k+1)..Len(lines) : ~IsSinkDeclaration(lines[j])
              => /\ Len(after) = Len(lines)
                 /\ \A j \in m..Len(lines) : after[j] = lines[j]

\* C8: for an endpoint file whose text has no NODE in it, check_endpoint_types
\* reports WARNING with auto_fixable set; after a call of fix_endpoint_types the
\* lines of the file are the line NODE endpoint and then the lines it had; and
\* the detector run on the result reports PASS.
EndpointGetsNode ==
    pc = "fix_endpoint_types" /\ Len(snap) >= 2
        /\ (\A i \in 1..Len(snap[1][EndpE]) : snap[1][EndpE][i] # "NODE")
    => /\ EndpointResult(files, snap[1]).status = "WARNING"
       /\ EndpointResult(files, snap[1]).auto_fixable
       /\ Split(snap[2][EndpE]) = <<<<"NODE", " ", "endpoint">>>> \o Split(snap[1][EndpE])
       /\ EndpointResult(files, snap[2]).status = "PASS"
       /\ EndpointResult(files, snap[2]).files_checked = <<EndpE>>

\* C8 witness: fix_endpoint_types was called on an endpoint of several lines
\* without NODE
EndpointWitness ==
    /\ pc = "fix_endpoint_types" /\ Len(snap) >= 2
    /\ \A i \in 1..Len(snap[1][EndpE]) : snap[1][EndpE][i] # "NODE"
    /\ Len(Split(snap[1][EndpE])) >= 2
    /\ Split(snap[2][EndpE])[1] = <<"NODE", " ", "endpoint">>

\* C9: every file with a path segment named vendor is in the vendor bucket of
\* the inventory, whatever its extension, and the Shared Datasources detector
\* reports FAIL (or FIXED after remediation) when such a file exists.
VendorBucketByPath ==
    pc # "start" /\ DOMAIN files # {} =>
        \A p \in Present(snap[1]) :
            (\E i \in 1..Len(p) : p[i] = <<"vendor">>)
            => /\ p \in Range(files.vendor)
               /\ "shared" \in DOMAIN report => report["shared"].status \in {"FAIL", "FIXED"}

\* the five buckets of the inventory
BucketNames == {"datasources", "pipes", "endpoints", "includes", "vendor"}

\* C10: when the project directory does not exist, the inventory has the five
\* buckets, all empty, no detector raises, and every check that has returned
\* has status PASS and no files_checked.
MissingRootPasses ==
    ProjectPath \notin dirs /\ pc # "start" =>
        /\ DOMAIN files = BucketNames
        /\ \A b \in BucketNames : files[b] = <<>>
        /\ pc # "KeyError"
        /\ \A n \in DOMAIN report :
              report[n].status = "PASS" /\ report[n].files_checked = <<>>

\* the prompt message was answered yes in this run
Confirmed(message) == \E i \in 1..Len(prompts) : prompts[i].message = message /\ prompts[i].answer

\* C11: no error leaves a remediation routine (the run never stops in the move
\* loop of fix_include_files or in the vendor deletion), and once the move of
\* the .incl files was confirmed every file of that batch has been attempted:
\* none is left at its place behind a file that failed.
RemediationNeverRaises ==
    /\ pc \notin {"FileNotFoundError", "OSError"}
    /\ Confirmed("move") => \A p \in Range(files.includes) : fs[p] = Absent

\* the detectors that read the text of files, by the name of their result
ContentDetectors == {"sinks", "shared", "dynamodb", "endpoint", "include"}

\* the files a content detector reads, in its order
ReadBucket(r) ==
    CASE r = "sinks" -> files.pipes
      [] r \in {"shared", "dynamodb"} -> files.datasources
      [] r = "endpoint" -> files.endpoints
      [] r = "include" -> files.pipes \o files.datasources \o files.endpoints

\* the rule of a content detector on a text that was read
Triggers(r, text) ==
    CASE r = "sinks" -> SearchTypeSink(text)
      [] r = "shared" -> SearchSharedWith(text)
      [] r = "dynamodb" -> SearchDynamodb(text)
      [] r = "endpoint" -> ~HasNode(text)
      [] r = "include" -> SearchInclude(text)

\* the status a rule reports when it has an issue
TriggeredStatus(r) == IF r \in {"sinks", "shared"} THEN "FAIL" ELSE "WARNING"

\* the issues of a result that name the file p
IssuesOf(res, p) ==
    {j \in 1..Len(res.issues) : "file" \in DOMAIN res.issues[j] /\ res.issues[j].file = p}

\* C12: in the step in which a content detector returns, every file of its
\* buckets is in files_checked; a file whose read raises has exactly one issue,
\* a read error; a file that was read has one issue if its text triggers the
\* rule and none if not, wherever it stands in the bucket; and the status is
\* the rule's FAIL or WARNING exactly when there is an issue, else PASS.
ReadFailureDegrades ==
    [][\A r \in ((DOMAIN report') \ (DOMAIN report)) \cap ContentDetectors :
          LET res == report'[r]
          IN /\ \A p \in Range(ReadBucket(r)) :
                   /\ p \in Range(res.files_checked)
                   /\ Cardinality(IssuesOf(res, p)) =
                          (IF ~Readable(fs, p) \/ Triggers(r, fs[p]) THEN 1 ELSE 0)
                   /\ \A j \in IssuesOf(res, p) :
                          (res.issues[j].kind = "read_error") <=> ~Readable(fs, p)
             /\ res.status = (IF res.issues # <<>> THEN TriggeredStatus(r) ELSE "PASS")]_vars

\* C12 witness: the Shared Datasources detector has returned for a bucket whose
\* first file does not decode and whose second declares SHARED_WITH; both are in
\* files_checked, and the issues are the read error and then the declaration
ReadFailureWitness ==
    /\ "shared" \in DOMAIN report
    /\ files.datasources = <<DsD, DsV>>
    /\ snap[1][DsD] = Undecodable
    /\ report["shared"].status = "FAIL"
    /\ report["shared"].files_checked = <<DsD, DsV>>
    /\ report["shared"].issues = <<[kind |-> "read_error", file |-> DsD],
                                   [kind |-> "shared", file |-> DsV]>>

\* C13: the result of a check, once returned by its detector, changes its
\* status only from FAIL or WARNING to FIXED, in a step in which its remediation
\* routine returns, after its batch prompt was answered yes, and leaves a
\* non-empty fixed_issues on the result; a result that is FIXED stays FIXED; and the Version Tags
\* and DynamoDB results are never FIXED and never auto_fixable.
StatusOnlyUpgrades ==
    [][/\ \A r \in DOMAIN report :
              /\ r \in DOMAIN report'
              /\ report'[r].status # report[r].status
                   => /\ report[r].status \in {"FAIL", "WARNING"}
                      /\ report'[r].status = "FIXED"
                      /\ report'[r].fixed_issues # None
                      /\ report'[r].fixed_issues # <<>>
                      /\ Len(prompts') = Len(prompts) + 1
                      /\ \E q \in Range(prompts') : q.message = r /\ q.answer
              /\ report'[r].status = "FIXED"
                   => report'[r].fixed_issues # None /\ report'[r].fixed_issues # <<>>
       /\ \A r \in DOMAIN report' \cap {"version", "dynamodb"} :
             report'[r].status \in {"PASS", "WARNING"} /\ ~report'[r].auto_fixable]_vars

\* C13 witness: at the end of a run the Sinks result is FIXED, the Endpoint
\* Types result is still WARNING although its remediation was confirmed and ran
\* (it changed nothing), and the DynamoDB result is WARNING
StatusWitness ==
    /\ pc = "done"
    /\ report["sinks"].status = "FIXED"
    /\ Confirmed("endpoint")
    /\ report["endpoint"].status = "WARNING"
    /\ report["endpoint"].fixed_issues = <<>>
    /\ report["dynamodb"].status = "WARNING"

\* what a content detector returns when it is run alone on a tree
Alone(r, tree) ==
    CASE r = "sinks" -> SinksResult(files, tree)
      [] r = "shared" -> SharedResult(files, tree)
      [] r = "dynamodb" -> DynamodbResult(files, tree)
      [] r = "endpoint" -> EndpointResult(files, tree)
      [] r = "include" -> IncludeResult(files, tree)

\* C14: the issue list of every result a content detector has returned in the
\* run is the one the detector gives alone on the tree as it was at the start
\* of the run, and its status is the status it gives alone, or FIXED.
DetectorsIndependent ==
    \A r \in DOMAIN report \cap ContentDetectors :
        /\ report[r].issues = Alone(r, snap[1]).issues
        /\ report[r].status \in {Alone(r, snap[1]).status, "FIXED"}

\* C15: in every step, a file of the inventory whose text is rewritten could be
\* read, its backup could be made, and after the step the backup holds the text
\* the file had before the step; a file that cannot be read, or whose backup
\* cannot be made, keeps its text as long as it is there.
WriteFollowsBackup ==
    [][\A p \in Inventory :
          /\ fs'[p] # fs[p] /\ fs'[p] # Absent
               => /\ Readable(fs, p)
                  /\ BackupPath(p) \notin denied
                  /\ fs'[BackupPath(p)] = fs[p]
          /\ ~Readable(fs, p) \/ BackupPath(p) \in denied
               => fs'[p] \in {fs[p], Absent}]_vars

\* C15 witness: at the end of a run in which the batches were confirmed, the
\* pipe, whose backup could not be made, still declares its sink and has no
\* backup, and the datasource was rewritten and its backup holds its first text
WriteFollowsBackupWitness ==
    /\ pc = "done"
    /\ BackupPath(PipeA) \in denied
    /\ Confirmed("sinks") /\ Confirmed("include") /\ Confirmed("shared")
    /\ fs[PipeA] = snap[1][PipeA]
    /\ SearchTypeSink(fs[PipeA])
    /\ fs[BackupPath(PipeA)] = Absent
    /\ fs[DsD] \notin {snap[1][DsD], Absent}
    /\ fs[BackupPath(DsD)] = snap[1][DsD]

\* C16: calling fix_include_files again leaves the text of the file as the
\* first call left it, and after any number of calls a line INCLUDE "x" of the
\* first text is the marker followed by that line, the marker once.
IncludesIdempotent ==
    pc = "fix_include_files" =>
        /\ \A i \in 2..(Len(snap) - 1) : snap[i+1][PipeA] = snap[i][PipeA]
        /\ \A i \in 2..Len(snap) :
              LET lines == Split(snap[1][PipeA])
                  after == Split(snap[i][PipeA])
              IN /\ Len(after) = Len(lines)
                 /\ \A j \in 1..Len(lines) :
                       lines[j] = IncludeLine => after[j] = Marker \o IncludeLine

\* C17: whenever fix_shared_datasources offers a directory for deletion, the
\* directory is named vendor and lies inside the project directory, below it;
\* and no file outside a directory named vendor is ever deleted by the offer's
\* confirmation.
VendorTargetInsideRoot ==
    /\ pc = "vendor_confirm" =>
          /\ PathName(VendorDir(files)) = <<"vendor">>
          /\ IsPrefix(ProjectPath, VendorDir(files))
          /\ VendorDir(files) # ProjectPath
    /\ Confirmed("vendor") =>
          \A p \in Present(snap[1]) :
              fs[p] = Absent /\ fs[MovePath(p)] = Absent
              => \E i \in 1..(Len(p) - 1) : p[i] = <<"vendor">>

\* the files in the backup directory of the .incl files
InBackupDir(tree) ==
    {q \in DOMAIN tree :
        IsFile(tree, q) /\ IsPrefix(ProjectPath \o <<<<"includes_backup">>>>, q)}

\* C18: when the move of the .incl files was confirmed and the routine has
\* returned, every .incl file of the inventory is gone from its path, the
\* backup directory holds it under its name with the text it had at the start,
\* and the backup directory has as many files more as the inventory has .incl
\* files.
MoveKeepsContent ==
    pc = "done" /\ Confirmed("move") =>
        /\ \A p \in Range(files.includes) :
              fs[p] = Absent /\ fs[MovePath(p)] = snap[1][p]
        /\ Cardinality(InBackupDir(fs)) =
               Cardinality(InBackupDir(snap[1])) + Len(files.includes)

====
